---- MODULE Spec2Model ----
(***************************************************************************)
(* Model of the WAMP-CRA authentication helpers (wamp_auth_utils.hpp) and  *)
(* of the transport contract declared by wamp_transport.hpp.               *)
(*                                                                         *)
(* Strings are sequences of octets (0..255).  The OpenSSL primitives and   *)
(* the C library generator are external to the repository: PBKDF2 and HMAC *)
(* are fixed functions of their arguments that may report failure, rand()  *)
(* is the linear congruential generator of the C standard.                 *)
(***************************************************************************)
EXTENDS Integers, Sequences, FiniteSets, TLC

VARIABLES
    call,        \* the call in progress / just completed (operation and arguments)
    outcome,     \* how the call ended
    raw,         \* the octets handed to base_64_encode by the call
    ret,         \* the std::string returned by the call
    prim,        \* what the call asked of the OpenSSL primitives, and their return codes
    rand_next,   \* state of the process-wide C library generator
    draws,       \* number of rand() calls made so far
    tpc,         \* per thread: position inside generate_wcs
    tlen,        \* per thread: the argument `length`
    ti,          \* per thread: the loop counter `i`
    tseed,       \* per thread: generator state read by the rand() in progress
    ts,          \* per thread: the local std::string `s`
    reads,       \* generator states read by the rand() calls, in order
    m_handler,         \* transport: the attached handler
    m_pause_handler,   \* transport: the registered pause handler
    m_resume_handler,  \* transport: the registered resume handler
    queued,            \* transport: messages waiting in the outbound queue
    congested,         \* transport: outbound path currently congested
    events,            \* transport: congestion events, in order
    onsets,            \* transport: congestion onsets so far
    clears,            \* transport: congestion clearings so far
    t_prev_handler,    \* transport: handler attached before the last operation
    t_op,              \* transport: last operation
    t_outcome          \* transport: how the last operation ended

authVars == <<call, outcome, raw, ret, prim>>
randVars == <<rand_next, draws>>
threadVars == <<tpc, tlen, ti, tseed, ts, reads>>
transportVars == <<m_handler, m_pause_handler, m_resume_handler, queued,
                   congested, events, onsets, clears, t_prev_handler,
                   t_op, t_outcome>>
vars == <<call, outcome, raw, ret, prim, rand_next, draws,
          tpc, tlen, ti, tseed, ts, reads,
          m_handler, m_pause_handler, m_resume_handler, queued,
          congested, events, onsets, clears, t_prev_handler,
          t_op, t_outcome>>

(***************************************************************************)
(* Bounds                                                                  *)
(***************************************************************************)
MaxIter == 2
MaxKeyLen == 3
MaxSecretLen == 2
MaxDraws == 3
MaxQueue == 3
MaxEvents == 4

(***************************************************************************)
(* Program constants                                                       *)
(***************************************************************************)
DigestLen == 32
CharsetSize == 62
PadChar == 61
NewlineChar == 10
LineLen == 64
HighWater == 2
LowWater == 0

Passwords == { <<>>, <<115, 51>> }
Salts == { <<>>, <<97>> }
Keys == { <<>>, <<107, 0, 255>> }
Challenges == { <<>>, <<112>> }
Iterations == -1 .. MaxIter
KeyLens == (-1 .. MaxKeyLen) \cup {DigestLen}
SecretLens == -1 .. MaxSecretLen
Seeds == {1, 42}
Threads == {1, 2}

RECURSIVE Sum(_)
Sum(s) == IF s = <<>> THEN 0 ELSE Head(s) + Sum(Tail(s))

CountOf(c, s) == Cardinality({i \in DOMAIN s : s[i] = c})

(***************************************************************************)
(* base_64_encode                                                          *)
(***************************************************************************)
B64Alphabet ==
    [i \in 0 .. 63 |->
        IF i < 26 THEN 65 + i
        ELSE IF i < 52 THEN 97 + (i - 26)
        ELSE IF i < 62 THEN 48 + (i - 52)
        ELSE IF i = 62 THEN 43 ELSE 47]

RECURSIVE EncodeBlocks(_)
EncodeBlocks(d) ==
    IF Len(d) = 0 THEN <<>>
    ELSE IF Len(d) = 1 THEN
        << B64Alphabet[d[1] \div 4], B64Alphabet[(d[1] % 4) * 16],
           PadChar, PadChar >>
    ELSE IF Len(d) = 2 THEN
        << B64Alphabet[d[1] \div 4],
           B64Alphabet[(d[1] % 4) * 16 + d[2] \div 16],
           B64Alphabet[(d[2] % 16) * 4],
           PadChar >>
    ELSE
        << B64Alphabet[d[1] \div 4],
           B64Alphabet[(d[1] % 4) * 16 + d[2] \div 16],
           B64Alphabet[(d[2] % 16) * 4 + d[3] \div 64],
           B64Alphabet[d[3] % 64] >> \o EncodeBlocks(SubSeq(d, 4, Len(d)))

RECURSIVE WrapLines(_)
WrapLines(s) ==
    IF s = <<>> THEN <<>>
    ELSE IF Len(s) <= LineLen THEN s \o <<NewlineChar>>
    ELSE SubSeq(s, 1, LineLen) \o <<NewlineChar>>
         \o WrapLines(SubSeq(s, LineLen + 1, Len(s)))

\* The base64 filter BIO: one write followed by a flush.
BIO_f_base64(data, no_nl) ==
    IF no_nl THEN EncodeBlocks(data) ELSE WrapLines(EncodeBlocks(data))

base_64_encode_nl(data) == BIO_f_base64(data, FALSE)

base_64_encode(data) == BIO_f_base64(data, TRUE)

(***************************************************************************)
(* OpenSSL primitives                                                      *)
(***************************************************************************)
PrimResults == {0, 1}

PKCS5_PBKDF2_HMAC(passwd, salt, iterations, keylen) ==
    [i \in 1 .. keylen |->
        (Sum(passwd) * 31 + Len(passwd) * 11 + Sum(salt) * 17 + Len(salt) * 5
         + (iterations + 1000) * 7 + i * 13 + 1) % 256]

HMAC_SHA256(key, challenge) ==
    [i \in 1 .. DigestLen |->
        (Sum(key) * 29 + Len(key) * 7 + Sum(challenge) * 19
         + Len(challenge) * 3 + i * 37 + 5) % 256]

\* Contents an uninitialised `unsigned char hash[32]` may hold.
UninitHashes == { [i \in 1 .. DigestLen |-> 0], [i \in 1 .. DigestLen |-> 204] }

(***************************************************************************)
(* C library generator                                                     *)
(***************************************************************************)
\* rand() of the C standard: next = next * 1103515245 + 12345, returning
\* (next / 65536) % 32768.  Only the low 31 bits of `next` reach the value, and
\* they evolve on their own, so the state is kept modulo 2^31, computed in
\* 16-bit limbs (1103515245 = 16838 * 65536 + 20077).
AddMod31(a, b) ==
    IF a > 2147483647 - b THEN a - (2147483647 - b) - 1 ELSE a + b

RandStep(s) ==
    LET hi == s \div 65536
        lo == s % 65536
        low == lo * 20077
        mid == ((hi * 20077 + lo * 16838) % 32768) * 65536
    IN AddMod31(AddMod31(low, mid), 12345)

RandValue(s) == (s \div 65536) % 32768

WCS_SECRET_CHARSET ==
    [i \in 0 .. 61 |->
        IF i < 26 THEN 65 + i
        ELSE IF i < 52 THEN 97 + (i - 26)
        ELSE 48 + (i - 52)]

WcsChar(s) == WCS_SECRET_CHARSET[RandValue(RandStep(s)) % CharsetSize]

\* State of the generator after n further draws.
RECURSIVE RandAfter(_, _)
RandAfter(s, n) == IF n <= 0 THEN s ELSE RandAfter(RandStep(s), n - 1)

\* The loop condition of generate_wcs.
WcsLoopTestInclusive(i, length) == i <= length

WcsLoopTest(i, length) == i < length

\* The loop of generate_wcs run from index i.
RECURSIVE WcsLoop(_, _, _)
WcsLoop(i, length, s) ==
    IF WcsLoopTest(i, length)
    THEN <<WcsChar(s)>> \o WcsLoop(i + 1, length, RandStep(s))
    ELSE <<>>

(***************************************************************************)
(* State                                                                   *)
(***************************************************************************)
NoCall ==
    [op |-> "none", passwd |-> <<>>, salt |-> <<>>, iterations |-> 0,
     keylen |-> 0, key |-> <<>>, challenge |-> <<>>, length |-> 0]

NoPrim ==
    [pbkdf2 |-> FALSE, iterations |-> 0, keylen |-> 0, result |-> 1,
     hmac |-> FALSE, init |-> 1, update |-> 1, final |-> 1]

NoHandler == "none"
Handlers == {"h1", "h2"}
Callbacks == {"none", "cb"}

Init ==
    /\ call = NoCall
    /\ outcome = "none"
    /\ raw = <<>>
    /\ ret = <<>>
    /\ prim = NoPrim
    /\ rand_next \in Seeds
    /\ draws = 0
    /\ tpc = [t \in Threads |-> "idle"]
    /\ tlen = [t \in Threads |-> 0]
    /\ ti = [t \in Threads |-> 0]
    /\ tseed = [t \in Threads |-> 0]
    /\ ts = [t \in Threads |-> <<>>]
    /\ reads = <<>>
    /\ m_handler = NoHandler
    /\ m_pause_handler = "none"
    /\ m_resume_handler = "none"
    /\ queued = 0
    /\ congested = FALSE
    /\ events = <<>>
    /\ onsets = 0
    /\ clears = 0
    /\ t_prev_handler = NoHandler
    /\ t_op = "none"
    /\ t_outcome = "none"

(***************************************************************************)
(* derive_key                                                              *)
(***************************************************************************)
\* The branch on the return code of PKCS5_PBKDF2_HMAC.
DeriveOutcomeNeverThrows(result) == "returned"

DeriveOutcomeInverted(result) ==
    IF result = 0 THEN "returned" ELSE "derived_key_error"

DeriveOutcome(result) ==
    IF result # 0 THEN "returned" ELSE "derived_key_error"

derive_key(passwd, salt, iterations, keylen) ==
    LET c == [NoCall EXCEPT !.op = "derive_key", !.passwd = passwd,
                            !.salt = salt, !.iterations = iterations,
                            !.keylen = keylen]
    IN
    /\ call' = c
    /\ IF keylen < 0
       THEN \* str_out.resize(keylen): the size converts to a value above max_size()
            /\ outcome' = "length_error"
            /\ prim' = NoPrim
            /\ raw' = <<>>
            /\ ret' = <<>>
       ELSE \E result \in PrimResults :
            LET out == IF result # 0
                       THEN PKCS5_PBKDF2_HMAC(passwd, salt, iterations, keylen)
                       ELSE [i \in 1 .. keylen |-> 0]
                o == DeriveOutcome(result)
                r == IF o = "returned" THEN base_64_encode(out) ELSE <<>>
            IN
            /\ prim' = [NoPrim EXCEPT !.pbkdf2 = TRUE, !.iterations = iterations,
                                      !.keylen = keylen, !.result = result]
            /\ outcome' = o
            /\ raw' = IF o = "returned" THEN out ELSE <<>>
            /\ ret' = r
    /\ UNCHANGED <<randVars, threadVars, transportVars>>

(***************************************************************************)
(* compute_wcs                                                             *)
(***************************************************************************)
compute_wcs(key, challenge) ==
    LET c == [NoCall EXCEPT !.op = "compute_wcs", !.key = key,
                            !.challenge = challenge]
    IN
    \E init \in PrimResults, update \in PrimResults, final \in PrimResults :
    \E garbage \in UninitHashes :
        LET hash == IF init # 0 /\ update # 0 /\ final # 0
                    THEN HMAC_SHA256(key, challenge)
                    ELSE garbage
            str_out == SubSeq(hash, 1, 32)
            r == base_64_encode(str_out)
        IN
        /\ call' = c
        /\ prim' = [NoPrim EXCEPT !.hmac = TRUE, !.init = init,
                                  !.update = update, !.final = final]
        /\ outcome' = "returned"
        /\ raw' = str_out
        /\ ret' = r
        /\ UNCHANGED <<randVars, threadVars, transportVars>>

(***************************************************************************)
(* generate_wcs, called from one thread                                    *)
(***************************************************************************)
generate_wcs(length) ==
    LET n == IF length > 0 THEN length ELSE 0
    IN
    /\ draws + n <= MaxDraws
    /\ call' = [NoCall EXCEPT !.op = "generate_wcs", !.length = length]
    /\ prim' = NoPrim
    /\ outcome' = "returned"
    /\ raw' = <<>>
    /\ ret' = WcsLoop(0, length, rand_next)
    /\ rand_next' = RandAfter(rand_next, n)
    /\ draws' = draws + n
    /\ UNCHANGED <<threadVars, transportVars>>

NextAuth ==
    \/ \E p \in Passwords, s \in Salts, it \in Iterations, kl \in KeyLens :
          derive_key(p, s, it, kl)
    \/ \E k \in Keys, ch \in Challenges : compute_wcs(k, ch)
    \/ \E length \in SecretLens : generate_wcs(length)

Spec == Init /\ [][NextAuth]_vars

(***************************************************************************)
(* generate_wcs, called from several threads.  rand() reads the generator  *)
(* state and writes the next one; nothing in generate_wcs orders the two   *)
(* against another thread's rand().                                        *)
(***************************************************************************)
WcsBegin(t, length) ==
    /\ tpc[t] \in {"idle", "done"}
    /\ tpc' = [tpc EXCEPT ![t] = "loop"]
    /\ tlen' = [tlen EXCEPT ![t] = length]
    /\ ti' = [ti EXCEPT ![t] = 0]
    /\ ts' = [ts EXCEPT ![t] = <<>>]
    /\ UNCHANGED <<tseed, reads, authVars, randVars, transportVars>>

WcsRandRead(t) ==
    /\ tpc[t] = "loop"
    /\ WcsLoopTest(ti[t], tlen[t])
    /\ Len(reads) < MaxDraws
    /\ tseed' = [tseed EXCEPT ![t] = rand_next]
    /\ reads' = Append(reads, rand_next)
    /\ tpc' = [tpc EXCEPT ![t] = "rand_write"]
    /\ UNCHANGED <<tlen, ti, ts, authVars, randVars, transportVars>>

WcsRandWrite(t) ==
    /\ tpc[t] = "rand_write"
    /\ rand_next' = RandStep(tseed[t])
    /\ draws' = draws + 1
    /\ ts' = [ts EXCEPT ![t] = Append(@, WcsChar(tseed[t]))]
    /\ ti' = [ti EXCEPT ![t] = @ + 1]
    /\ tpc' = [tpc EXCEPT ![t] = "loop"]
    /\ UNCHANGED <<tlen, tseed, reads, authVars, transportVars>>

WcsReturn(t) ==
    /\ tpc[t] = "loop"
    /\ ~WcsLoopTest(ti[t], tlen[t])
    /\ tpc' = [tpc EXCEPT ![t] = "done"]
    /\ UNCHANGED <<tlen, ti, tseed, ts, reads, authVars, randVars, transportVars>>

NextThreads ==
    \/ \E t \in Threads, length \in SecretLens : WcsBegin(t, length)
    \/ \E t \in Threads : WcsRandRead(t)
    \/ \E t \in Threads : WcsRandWrite(t)
    \/ \E t \in Threads : WcsReturn(t)

SpecThreads == Init /\ [][NextThreads]_vars

(***************************************************************************)
(* Transport contract                                                      *)
(***************************************************************************)
has_handler == m_handler # NoHandler

attach_replaces(handler) ==
    /\ t_op' = "attach"
    /\ t_prev_handler' = m_handler
    /\ m_handler' = handler
    /\ t_outcome' = "ok"
    /\ UNCHANGED <<m_pause_handler, m_resume_handler, queued, congested,
                   events, onsets, clears, authVars, randVars, threadVars>>

attach(handler) ==
    /\ t_op' = "attach"
    /\ t_prev_handler' = m_handler
    /\ IF has_handler
       THEN /\ t_outcome' = "rejected"
            /\ m_handler' = m_handler
       ELSE /\ t_outcome' = "ok"
            /\ m_handler' = handler
    /\ UNCHANGED <<m_pause_handler, m_resume_handler, queued, congested,
                   events, onsets, clears, authVars, randVars, threadVars>>

detach ==
    /\ t_op' = "detach"
    /\ t_prev_handler' = m_handler
    /\ m_handler' = NoHandler
    /\ t_outcome' = "ok"
    /\ UNCHANGED <<m_pause_handler, m_resume_handler, queued, congested,
                   events, onsets, clears, authVars, randVars, threadVars>>

set_pause_handler(handler) ==
    /\ t_op' = "set_pause_handler"
    /\ m_pause_handler' = handler
    /\ t_outcome' = "ok"
    /\ UNCHANGED <<m_handler, t_prev_handler, m_resume_handler, queued,
                   congested, events, onsets, clears,
                   authVars, randVars, threadVars>>

set_resume_handler(handler) ==
    /\ t_op' = "set_resume_handler"
    /\ m_resume_handler' = handler
    /\ t_outcome' = "ok"
    /\ UNCHANGED <<m_handler, t_prev_handler, m_pause_handler, queued,
                   congested, events, onsets, clears,
                   authVars, randVars, threadVars>>

\* A congestion event: the registered callback is invoked, or the event is
\* dropped when none is registered.
Notify(kind, handler) ==
    [kind |-> kind, invoked |-> handler # "none"]

\* Congestion begins when the outbound queue reaches the high-water mark.
OnsetEveryFullSend(n) == n >= HighWater

Onset(n) == n >= HighWater /\ ~congested

\* Congestion ends when the outbound queue falls to the low-water mark.
Cleared(n) == n <= LowWater /\ congested

send_message ==
    /\ queued < MaxQueue
    /\ t_op' = "send_message"
    /\ t_outcome' = "ok"
    /\ queued' = queued + 1
    /\ IF Onset(queued + 1)
       THEN /\ Len(events) < MaxEvents
            /\ congested' = TRUE
            /\ onsets' = onsets + 1
            /\ events' = Append(events, Notify("pause", m_pause_handler))
       ELSE UNCHANGED <<congested, onsets, events>>
    /\ UNCHANGED <<m_handler, t_prev_handler, m_pause_handler,
                   m_resume_handler, clears, authVars, randVars, threadVars>>

\* The transport's I/O side writes one queued message to the peer.
drain ==
    /\ queued > 0
    /\ t_op' = "drain"
    /\ t_outcome' = "ok"
    /\ queued' = queued - 1
    /\ IF Cleared(queued - 1)
       THEN /\ Len(events) < MaxEvents
            /\ congested' = FALSE
            /\ clears' = clears + 1
            /\ events' = Append(events, Notify("resume", m_resume_handler))
       ELSE UNCHANGED <<congested, clears, events>>
    /\ UNCHANGED <<m_handler, t_prev_handler, m_pause_handler,
                   m_resume_handler, onsets, authVars, randVars, threadVars>>

NextTransport ==
    \/ \E h \in Handlers : attach(h)
    \/ detach
    \/ \E cb \in Callbacks : set_pause_handler(cb)
    \/ \E cb \in Callbacks : set_resume_handler(cb)
    \/ send_message
    \/ drain

SpecTransport == Init /\ [][NextTransport]_vars

(***************************************************************************)
(* Properties                                                              *)
(***************************************************************************)
IsDeriveCall == call.op = "derive_key"
IsDigestCall == call.op = "compute_wcs"
IsSecretCall == call.op = "generate_wcs"
ValidDeriveArgs == call.iterations > 0 /\ call.keylen > 0
HmacSucceeded == prim.init # 0 /\ prim.update # 0 /\ prim.final # 0
Alphanumeric == (65 .. 90) \cup (97 .. 122) \cup (48 .. 57)
NoDuplicates(s) == \A i, j \in DOMAIN s : i # j => s[i] # s[j]
PadNeeded(n) == (3 - (n % 3)) % 3

\* C1: a derive_key call with iterations > 0 and key_length > 0 reaches the
\* PBKDF2 primitive and ends in one of two ways only: it throws
\* derived_key_error exactly when the primitive reported failure (return
\* code 0, OpenSSL's convention), and otherwise returns the encoding of the
\* derived key; no key is returned after a failure.
C1_DeriveThrowsIffPrimitiveFails ==
    (IsDeriveCall /\ ValidDeriveArgs) =>
        /\ prim.pbkdf2
        /\ outcome \in {"returned", "derived_key_error"}
        /\ (outcome = "derived_key_error") <=> (prim.result = 0)
        /\ outcome = "returned" =>
              ret = base_64_encode(PKCS5_PBKDF2_HMAC(call.passwd, call.salt,
                                       call.iterations, call.keylen))
        /\ outcome = "derived_key_error" => ret = <<>>

C1_Witness ==
    /\ IsDeriveCall /\ ValidDeriveArgs
    /\ prim.pbkdf2 /\ prim.result = 0
    /\ outcome = "derived_key_error"

\* C2: compute_wcs returns a digest only when HMAC init, update and final all
\* succeeded, and the digest is then the encoded HMAC of (key, challenge).
C2_NoDigestAfterPrimitiveFailure ==
    (IsDigestCall /\ outcome = "returned") =>
        /\ HmacSucceeded
        /\ ret = base_64_encode(HMAC_SHA256(call.key, call.challenge))

\* C3 as stated: the encoded text of n >= 1 raw octets contains neither a
\* padding character nor a newline.
C3_NoPaddingNoNewline ==
    ((IsDeriveCall \/ IsDigestCall) /\ outcome = "returned" /\ Len(raw) >= 1) =>
        /\ CountOf(PadChar, ret) = 0
        /\ CountOf(NewlineChar, ret) = 0

\* C3 amended: the encoded text of n >= 1 raw octets contains no newline, is
\* 4 * ceil(n / 3) characters long, and ends with (3 - n mod 3) mod 3 padding
\* characters '=' and has none elsewhere: padding is absent only when n is a
\* multiple of 3, and the 32-octet digest ends with one '='.
C3_NoNewlinePaddedToQuantum ==
    ((IsDeriveCall \/ IsDigestCall) /\ outcome = "returned" /\ Len(raw) >= 1) =>
        /\ CountOf(NewlineChar, ret) = 0
        /\ Len(ret) = 4 * ((Len(raw) + 2) \div 3)
        /\ CountOf(PadChar, ret) = PadNeeded(Len(raw))
        /\ \A i \in DOMAIN ret :
              (ret[i] = PadChar) <=> (i > Len(ret) - PadNeeded(Len(raw)))
        /\ IsDigestCall => (Len(raw) = DigestLen /\ CountOf(PadChar, ret) = 1)

C3_Witness ==
    /\ IsDigestCall /\ outcome = "returned"
    /\ Len(raw) = DigestLen
    /\ Len(ret) = 44
    /\ ret[44] = PadChar

\* C4 as stated: generate_wcs(length) returns exactly `length` characters,
\* all alphanumeric, for every integer length, negative ones included.
C4_ExactlyLengthChars ==
    (IsSecretCall /\ outcome = "returned") =>
        /\ Len(ret) = call.length
        /\ \A i \in DOMAIN ret : ret[i] \in Alphanumeric

\* C4 amended: generate_wcs(length) returns exactly `length` alphanumeric
\* characters when length >= 0 and the empty string when length < 0.
C4_LengthCharsOrEmpty ==
    (IsSecretCall /\ outcome = "returned") =>
        /\ call.length >= 0 => Len(ret) = call.length
        /\ call.length < 0 => ret = <<>>
        /\ \A i \in DOMAIN ret : ret[i] \in Alphanumeric

C4_Witness ==
    /\ IsSecretCall /\ outcome = "returned"
    /\ call.length = 2
    /\ Len(ret) = 2

\* C5: concurrent generate_wcs calls never read the same generator state
\* twice, and no update of the generator is lost: once every rand() in
\* progress has finished, the state is the one reached by as many steps as
\* there were draws.
C5_DrawsSynchronized ==
    /\ NoDuplicates(reads)
    /\ ((\A t \in Threads : tpc[t] # "rand_write") /\ reads # <<>>) =>
          rand_next = RandAfter(reads[1], draws)

\* C6: derive_key with iterations <= 0 or key_length <= 0 never reaches the
\* key-stretching primitive and never returns a derived key.
C6_InvalidArgsRejected ==
    (IsDeriveCall /\ ~ValidDeriveArgs) =>
        /\ ~prim.pbkdf2
        /\ outcome # "returned"

\* C7: a derive_key or compute_wcs call that repeats the arguments of the
\* call before it returns the same text, and the raw output of compute_wcs
\* is 32 octets.
C7_Deterministic ==
    [][ /\ (/\ call' = call
            /\ call.op \in {"derive_key", "compute_wcs"}
            /\ outcome = "returned"
            /\ outcome' = "returned") => ret' = ret
        /\ (call'.op = "compute_wcs" /\ outcome' = "returned") =>
              Len(raw') = DigestLen ]_vars

\* C8: has_handler() is true after a successful attach and false after
\* detach; an attach is rejected exactly when a handler was already
\* attached, and then leaves that handler in place.
C8_SingleHandlerDiscipline ==
    /\ m_handler \in Handlers \cup {NoHandler}
    /\ (t_op = "attach" /\ t_outcome = "ok") =>
          (has_handler /\ t_prev_handler = NoHandler)
    /\ t_op = "detach" => ~has_handler
    /\ t_op = "attach" =>
          ((t_outcome = "rejected") <=> (t_prev_handler # NoHandler))
    /\ (t_op = "attach" /\ t_outcome = "rejected") =>
          (m_handler = t_prev_handler /\ has_handler)

C8_Witness ==
    /\ t_op = "attach"
    /\ t_outcome = "rejected"
    /\ m_handler = "h1"

\* C9: every congestion onset produces exactly one pause event and every
\* clearing exactly one resume event, the events alternate starting with
\* pause, and an event is an invocation when the handler is registered and
\* is dropped otherwise, without failing send_message.
PauseEvents == {i \in DOMAIN events : events[i].kind = "pause"}
ResumeEvents == {i \in DOMAIN events : events[i].kind = "resume"}

C9_OneEventPerTransition ==
    /\ Cardinality(PauseEvents) = onsets
    /\ Cardinality(ResumeEvents) = clears
    /\ \A i \in DOMAIN events :
          events[i].kind = (IF i % 2 = 1 THEN "pause" ELSE "resume")
    /\ onsets - clears = (IF congested THEN 1 ELSE 0)
    /\ congested => queued > LowWater
    /\ ~congested => queued < HighWater
    /\ t_op = "send_message" => t_outcome = "ok"

C9_Witness ==
    /\ Len(events) = 4
    /\ \A i \in DOMAIN events : events[i].invoked
    /\ onsets = 2 /\ clears = 2

\* C10 as stated: a zero return code from PBKDF2 makes derive_key return
\* the key and a non-zero one makes it throw.
C10_ZeroIsSuccess ==
    (IsDeriveCall /\ prim.pbkdf2) =>
        /\ prim.result = 0 => outcome = "returned"
        /\ prim.result # 0 => outcome = "derived_key_error"

\* C10 amended: a non-zero return code from PBKDF2 makes derive_key return
\* the encoded key and a zero return code makes it throw derived_key_error.
C10_NonZeroIsSuccess ==
    (IsDeriveCall /\ prim.pbkdf2) =>
        /\ prim.result # 0 =>
              (outcome = "returned" /\ ret = base_64_encode(raw)
               /\ Len(raw) = call.keylen)
        /\ prim.result = 0 => outcome = "derived_key_error"

C10_Witness ==
    /\ IsDeriveCall /\ prim.pbkdf2
    /\ prim.result = 1
    /\ outcome = "returned"
    /\ call.keylen = DigestLen

====
